---- MODULE Spec2Model ----
(***************************************************************************)
(* Model of the anonymization pipeline (UddyOrizu/anonymization).          *)
(*                                                                         *)
(* Text is a string (a sequence of characters); an entity is a record      *)
(* [type, value]; a Python dict is a sequence of [key, val] records in     *)
(* insertion order.  One action per pipeline stage; the engines the        *)
(* stages call (NER tagger, PII analyzer, completion service, coreference  *)
(* resolver, random.choice) are nondeterministic choices over small sets.  *)
(***************************************************************************)
EXTENDS Integers, Sequences, FiniteSets, TLC

VARIABLES
    status,                     \* "created" | "running" | "complete" | "failed"
    stage,                      \* index in DefaultStages of the next stage to run
    original_text,              \* ctx.original_text
    coreference_resolved_text,  \* ctx.coreference_resolved_text
    processed_text,             \* ctx.processed_text
    intent,                     \* ctx.intent ("unset" | "search" | "reasoning")
    pii_entities,               \* ctx.pii_entities
    replacement_map,            \* ctx.replacement_map
    metadata,                   \* ctx.metadata: <<>> or <<audit entry>>
    use_llm,                    \* IntentClassifierStage.llm_config["use_llm"]
    nlp,                        \* IntentClassifierStage.nlp is loaded
    spacy_available,            \* PIIDetectorStage.spacy_available
    presidio_available,         \* PIIDetectorStage.presidio_available
    builds,                     \* calls of build_default_pipeline() so far
    votes,                      \* locals of IntentClassifierStage.process
    candidates                  \* local `entities` of PIIDetectorStage.process

vars == <<status, stage, original_text, coreference_resolved_text,
          processed_text, intent, pii_entities, replacement_map, metadata,
          use_llm, nlp, spacy_available, presidio_available, builds, votes,
          candidates>>

ctxVars == <<original_text, coreference_resolved_text, processed_text, intent,
             pii_entities, replacement_map, metadata>>

engineVars == <<use_llm, nlp, spacy_available, presidio_available, builds>>

(***************************************************************************)
(* Bounds of the model.                                                    *)
(***************************************************************************)
MaxEnts == 2        \* longest merged entity list drawn as an input
MaxPick == 3        \* random.choice draws among the first MaxPick list items

Min(a, b) == IF a < b THEN a ELSE b

(***************************************************************************)
(* String primitives (Python str operations).                              *)
(***************************************************************************)
\* `sub in text`
Occurs(sub, text) ==
    \E i \in 1..(Len(text) - Len(sub) + 1) :
        SubSeq(text, i, i + Len(sub) - 1) = sub

\* number of (possibly overlapping) positions at which sub occurs in text
CountOcc(sub, text) ==
    Cardinality({i \in 1..(Len(text) - Len(sub) + 1) :
                    SubSeq(text, i, i + Len(sub) - 1) = sub})

\* re.sub(re.escape(old), new, text): every leftmost non-overlapping
\* occurrence of the literal old (non-empty) is replaced by new
\* text[p:p+len(sub)] == sub (p counted from 1)
OccursAt(sub, text, p) ==
    /\ p >= 1
    /\ p + Len(sub) - 1 <= Len(text)
    /\ SubSeq(text, p, p + Len(sub) - 1) = sub

RECURSIVE re_sub(_, _, _)
re_sub(old, new, text) ==
    IF Len(text) < Len(old) THEN text
    ELSE IF SubSeq(text, 1, Len(old)) = old
         THEN new \o re_sub(old, new, SubSeq(text, Len(old) + 1, Len(text)))
         ELSE SubSeq(text, 1, 1) \o re_sub(old, new, SubSeq(text, 2, Len(text)))

(***************************************************************************)
(* Python dict as an insertion-ordered sequence of [key, val].             *)
(***************************************************************************)
DictKeys(d) == {d[i].key : i \in 1..Len(d)}

DictVals(d) == {d[i].val : i \in 1..Len(d)}

\* d[k] = v: an existing key keeps its position, a new key is appended
DictSet(d, k, v) ==
    IF k \in DictKeys(d)
    THEN [i \in 1..Len(d) |-> IF d[i].key = k THEN [key |-> k, val |-> v] ELSE d[i]]
    ELSE Append(d, [key |-> k, val |-> v])

(***************************************************************************)
(* helper.py: _multi_replace                                               *)
(***************************************************************************)
\* one insertion step of the stable sort by descending key length
RECURSIVE InsertByLen(_, _)
InsertByLen(sorted, kv) ==
    IF Len(sorted) = 0 THEN <<kv>>
    ELSE IF Len(Head(sorted).key) >= Len(kv.key)
         THEN <<Head(sorted)>> \o InsertByLen(Tail(sorted), kv)
         ELSE <<kv>> \o sorted

\* sorted(replacements.items(), key=lambda kv: len(kv[0]), reverse=True)
RECURSIVE sorted_pairs(_)
sorted_pairs(items) ==
    IF Len(items) = 0 THEN <<>>
    ELSE InsertByLen(sorted_pairs(SubSeq(items, 1, Len(items) - 1)),
                     items[Len(items)])

\* for old, new in sorted_pairs: text = re.sub(re.escape(old), new, text)
RECURSIVE SubAll(_, _)
SubAll(pairs, text) ==
    IF Len(pairs) = 0 THEN text
    ELSE SubAll(Tail(pairs), re_sub(Head(pairs).key, Head(pairs).val, text))

multi_replace(text, replacements) ==
    IF Len(replacements) = 0 THEN text
    ELSE SubAll(sorted_pairs(replacements), text)

(***************************************************************************)
(* PII_masking.py: PIIMaskStage                                            *)
(***************************************************************************)
\* mutant: no type is exempt from masking
IMMUNE_TYPES_none == {}

IMMUNE_TYPES == {"COMPANY_NAME", "PERSON_NAME"}

\* f'<{ptype}>'
Placeholder(ptype) == "<" \o ptype \o ">"

\* the loop that fills `masks`
RECURSIVE BuildMasks(_, _)
BuildMasks(ents, masks) ==
    IF Len(ents) = 0 THEN masks
    ELSE BuildMasks(Tail(ents),
                    IF Head(ents).type \in IMMUNE_TYPES
                    THEN masks
                    ELSE DictSet(masks, Head(ents).value,
                                 Placeholder(Head(ents).type)))

Masks(ents) == BuildMasks(ents, <<>>)

\* the text PIIMaskStage.process leaves in ctx.processed_text
MaskText(text, ents) ==
    IF Len(ents) = 0 THEN text ELSE multi_replace(text, Masks(ents))

(***************************************************************************)
(* name_replacement.py: NameReplacementStage                               *)
(***************************************************************************)
first_names == <<"Alex", "Jordan", "Taylor", "Morgan", "Casey", "Riley",
                 "Jamie", "Avery", "Peyton", "Quinn", "Abaobi">>

last_names == <<"SmithDoe", "JohnsonDoe", "LeeDoe", "BrownDoe", "GarciaDoe",
                "MartinezDoe", "DavisDoe", "ClarkDoe", "LewisDoe",
                "WalkerDoe", "OlufemiDoe">>

prefixes == <<"ABCTech", "ABCGlobal", "ABCNextGen", "XYZPioneer", "ABCVision",
              "ABCQuantum", "XYZBlue", "ABCGreen", "DEFPrime", "123Dynamic">>

suffixes == <<"Solutions", "Systems", "Industries", "Enterprises", "Group",
              "Technologies", "Holdings", "Partners", "Labs", "Networks">>

\* random.choice(list), within the model's bound on the draw
Choice(list) == {list[i] : i \in 1..Min(MaxPick, Len(list))}

generate_random_person_name ==
    {f \o " " \o l : f \in Choice(first_names), l \in Choice(last_names)}

generate_random_company_name ==
    {p \o " " \o s : p \in Choice(prefixes), s \in Choice(suffixes)}

\* the aliases the loop may draw for one entity ("" : the entity is skipped)
AliasesFor(etype) ==
    IF etype = "PERSON_NAME" THEN generate_random_person_name
    ELSE IF etype = "COMPANY_NAME" THEN generate_random_company_name
    ELSE {""}

\* every outcome of the draws of one run of the loop, one alias per entity
RECURSIVE AliasDraws(_)
AliasDraws(ents) ==
    IF Len(ents) = 0 THEN {<<>>}
    ELSE {<<a>> \o rest : a \in AliasesFor(Head(ents).type),
                          rest \in AliasDraws(Tail(ents))}

\* mutant: every entity type is treated as a name type
IsNameType_any(etype) == etype = etype

IsNameType(etype) == etype = "PERSON_NAME" \/ etype = "COMPANY_NAME"

\* the loop that fills `replacements` (and ctx.replacement_map) from a draw
RECURSIVE BuildReplacements(_, _, _)
BuildReplacements(ents, draw, map) ==
    IF Len(ents) = 0 THEN map
    ELSE BuildReplacements(Tail(ents), Tail(draw),
                           IF IsNameType(Head(ents).type)
                           THEN DictSet(map, Head(ents).value, Head(draw))
                           ELSE map)

(***************************************************************************)
(* audit_trail.py: AuditStage                                              *)
(***************************************************************************)
\* NameReplacementStage.__name__
NameStageClassName == "NameReplacementStage"

\* [e for e in ctx.pii_entities if e["type"] not in NameReplacementStage.__name__]
MaskedEntities(ents) ==
    SelectSeq(ents, LAMBDA e : ~Occurs(e.type, NameStageClassName))

AuditEntry ==
    [intent          |-> intent,
     pii_discovered  |-> Len(pii_entities),
     masked_entities |-> MaskedEntities(pii_entities),
     name_mapping    |-> replacement_map]

(***************************************************************************)
(* intent_classifier.py: IntentClassifierStage                             *)
(***************************************************************************)
SEARCH_KEYWORDS ==
    {"find", "lookup", "list", "search", "show", "retrieve", "query"}

REASONING_KEYWORDS ==
    {"why", "how", "explain", "compare", "analyse", "analysis", "reason",
     "evaluate", "calculate"}

LengthThreshold == 140

UpperAlpha == "ABCDEFGHIJKLMNOPQRSTUVWXYZ"

LowerAlpha == "abcdefghijklmnopqrstuvwxyz"

LowerChar(c) ==
    IF \E i \in 1..Len(UpperAlpha) : SubSeq(UpperAlpha, i, i) = c
    THEN LET i == CHOOSE j \in 1..Len(UpperAlpha) : SubSeq(UpperAlpha, j, j) = c
         IN  SubSeq(LowerAlpha, i, i)
    ELSE c

\* str.lower(), on ASCII text (TLA+ strings hold no other characters)
RECURSIVE Lower(_)
Lower(s) ==
    IF Len(s) = 0 THEN s
    ELSE IF Len(s) = 1 THEN LowerChar(s)
    ELSE Lower(SubSeq(s, 1, Len(s) \div 2))
             \o Lower(SubSeq(s, (Len(s) \div 2) + 1, Len(s)))

IsSpace(c) == c \in {" ", "\n", "\t"}

\* str.strip()
RECURSIVE Strip(_)
Strip(s) ==
    IF Len(s) = 0 THEN s
    ELSE IF IsSpace(SubSeq(s, 1, 1)) THEN Strip(SubSeq(s, 2, Len(s)))
    ELSE IF IsSpace(SubSeq(s, Len(s), Len(s))) THEN Strip(SubSeq(s, 1, Len(s) - 1))
    ELSE s

\* any(word in text_lower for word in KEYWORDS)
KeywordScore(text_lower, keywords) == \E w \in keywords : Occurs(w, text_lower)

\* mutant: the length test is <= instead of <
keyword_intent_classification_le(text) ==
    LET text_lower      == Lower(text)
        search_score    == KeywordScore(text_lower, SEARCH_KEYWORDS)
        reasoning_score == KeywordScore(text_lower, REASONING_KEYWORDS)
    IN  IF search_score /\ ~reasoning_score THEN "search"
        ELSE IF reasoning_score /\ ~search_score THEN "reasoning"
        ELSE IF Len(text_lower) <= LengthThreshold THEN "search"
        ELSE "reasoning"

keyword_intent_classification(text) ==
    LET text_lower      == Lower(text)
        search_score    == KeywordScore(text_lower, SEARCH_KEYWORDS)
        reasoning_score == KeywordScore(text_lower, REASONING_KEYWORDS)
    IN  IF search_score /\ ~reasoning_score THEN "search"
        ELSE IF reasoning_score /\ ~search_score THEN "reasoning"
        ELSE IF Len(text_lower) < LengthThreshold THEN "search"
        ELSE "reasoning"

\* What the completion service may do for one request: the call fails, the
\* response is empty (falsy), or it carries a message content.
LLMContents == {"search", " Reasoning\n", "Search, not reasoning", "unsure", ""}

CompletionOutcomes ==
    {[kind |-> "fails", content |-> ""], [kind |-> "empty", content |-> ""]}
    \cup {[kind |-> "content", content |-> c] : c \in LLMContents}

\* mutant: the error of the completion call, and an answer that cannot be
\* read, reach process(), which leaves the strategy out of the vote
llm_intent_classification_abstains(text, completion) ==
    IF completion.kind = "fails" THEN "raise"
    ELSE IF completion.kind = "empty" THEN "raise"
    ELSE LET result == Lower(Strip(completion.content))
         IN  IF Occurs("search", result) THEN "search"
             ELSE IF Occurs("reasoning", result) THEN "reasoning"
             ELSE "raise"

\* mutant: the fallback answers "search" instead of asking the keyword strategy
llm_intent_classification_default_search(text, completion) ==
    IF completion.kind = "fails" THEN "search"
    ELSE IF completion.kind = "empty" THEN "search"
    ELSE LET result == Lower(Strip(completion.content))
         IN  IF Occurs("search", result) THEN "search"
             ELSE IF Occurs("reasoning", result) THEN "reasoning"
             ELSE "search"

llm_intent_classification(text, completion) ==
    IF completion.kind = "fails" THEN keyword_intent_classification(text)
    ELSE IF completion.kind = "empty" THEN keyword_intent_classification(text)
    ELSE LET result == Lower(Strip(completion.content))
         IN  IF Occurs("search", result) THEN "search"
             ELSE IF Occurs("reasoning", result) THEN "reasoning"
             ELSE keyword_intent_classification(text)

\* The embedding strategy's inputs, which come from the NER model: the two
\* average cosine similarities (in tenths, 0..MaxSim), the verb-pattern label
\* and whether the model call fails.
MaxSim == 3

VerbBonus == 3      \* the 0.3 bonus, in tenths

VerbLabels == {"search", "reasoning", "neutral"}

EmbeddingOutcomes ==
    {[fails |-> TRUE, search_sim |-> 0, reasoning_sim |-> 0, verb |-> "neutral"]}
    \cup {[fails |-> FALSE, search_sim |-> s, reasoning_sim |-> r, verb |-> v] :
            s \in 0..MaxSim, r \in 0..MaxSim, v \in VerbLabels}

spacy_intent_classification(text, emb) ==
    IF emb.fails THEN keyword_intent_classification(text)
    ELSE LET search_confidence ==
                 emb.search_sim + (IF emb.verb = "search" THEN VerbBonus ELSE 0)
             reasoning_confidence ==
                 emb.reasoning_sim + (IF emb.verb = "reasoning" THEN VerbBonus ELSE 0)
         IN  IF search_confidence > reasoning_confidence THEN "search"
             ELSE "reasoning"

\* What a strategy call made by process() yields: the method's label, or
\* "raise" when the method itself raises (test_ensemble_classification patches
\* it to do so); "skipped" when the strategy is not available.
LLMCallResults(text) ==
    {"raise"} \cup {llm_intent_classification(text, c) : c \in CompletionOutcomes}

SpacyCallResults(text) ==
    {"raise"} \cup {spacy_intent_classification(text, e) : e \in EmbeddingOutcomes}

\* the completion service was not called
NoCompletion == [kind |-> "skipped", content |-> ""]

NoVotes ==
    [llm |-> "skipped", spacy |-> "skipped", keyword |-> "none",
     search |-> 0, reasoning |-> 0, methods_used |-> 0,
     completion |-> NoCompletion]

Tally(v, label) ==
    IF label = "search"
    THEN [v EXCEPT !.search = @ + 1, !.methods_used = @ + 1]
    ELSE IF label = "reasoning"
    THEN [v EXCEPT !.reasoning = @ + 1, !.methods_used = @ + 1]
    ELSE v

\* mutant: the keyword strategy's answer is noted but not counted as a vote
CastVotes_no_keyword(llm_label, spacy_label, keyword_label) ==
    Tally(Tally([NoVotes EXCEPT !.llm = llm_label,
                                !.spacy = spacy_label,
                                !.keyword = keyword_label],
                llm_label), spacy_label)

\* the three voting blocks of process(): results / methods_used after them
CastVotes(llm_label, spacy_label, keyword_label) ==
    Tally(Tally(Tally([NoVotes EXCEPT !.llm = llm_label,
                                      !.spacy = spacy_label,
                                      !.keyword = keyword_label],
                      llm_label), spacy_label), keyword_label)

\* mutant: a tie goes to "reasoning" instead of the keyword strategy's result
FinalIntent_tie_reasoning(v) ==
    IF v.methods_used = 0 THEN "search"
    ELSE IF v.search > v.reasoning THEN "search"
    ELSE "reasoning"

\* mutant: a tie goes to "search" instead of the keyword strategy's result
FinalIntent_tie_search(v) ==
    IF v.methods_used = 0 THEN "search"
    ELSE IF v.search >= v.reasoning THEN "search"
    ELSE "reasoning"

\* the final if / elif / else of process()
FinalIntent(v) ==
    IF v.methods_used = 0 THEN "search"
    ELSE IF v.search = v.reasoning THEN v.keyword
    ELSE IF v.search > v.reasoning THEN "search"
    ELSE "reasoning"

(***************************************************************************)
(* PII_detector.py: the three detectors                                    *)
(***************************************************************************)
\* the keys of PATTERNS, in dict order
PATTERNS == <<"EMAIL", "PHONE", "IP", "SSN", "CREDIT_CARD", "ADDRESS">>

\* The strings each compiled pattern matches in the texts of the model (words
\* separated by blanks or by ", "); no pattern matches a name.
PatternMatches ==
    [EMAIL |-> <<"a@b.co">>, PHONE |-> <<"555-123-4567">>, IP |-> <<"1.2.3.4">>,
     SSN |-> <<"123-45-6789">>, CREDIT_CARD |-> <<>>, ADDRESS |-> <<>>]

RECURSIVE Flatten(_)
Flatten(seqs) ==
    IF Len(seqs) = 0 THEN <<>> ELSE Head(seqs) \o Flatten(Tail(seqs))

\* pattern.finditer(text): the matches of one pattern from position p on, left
\* to right, none overlapping the one before
RECURSIVE FindIter(_, _, _)
FindIter(matches, text, p) ==
    IF p > Len(text) THEN <<>>
    ELSE LET here == SelectSeq(matches, LAMBDA m : OccursAt(m, text, p))
         IN  IF Len(here) = 0 THEN FindIter(matches, text, p + 1)
             ELSE <<here[1]>> \o FindIter(matches, text, p + Len(here[1]))

\* for pii_type, pattern in PATTERNS.items(): for match in finditer(text): ...
regex_based_pii_detection(text) ==
    Flatten([i \in 1..Len(PATTERNS) |->
        LET found == FindIter(PatternMatches[PATTERNS[i]], text, 1)
        IN  [j \in 1..Len(found) |-> [type |-> PATTERNS[i], value |-> found[j]]]])

SPACY_ENTITY_MAP ==
    [PERSON |-> "PERSON_NAME", ORG |-> "COMPANY_NAME", GPE |-> "LOCATION",
     LOC |-> "LOCATION", DATE |-> "DATE", TIME |-> "TIME",
     MONEY |-> "FINANCIAL", CARDINAL |-> "NUMBER", ORDINAL |-> "NUMBER",
     QUANTITY |-> "QUANTITY", PRODUCT |-> "PRODUCT", EMAIL |-> "EMAIL",
     PHONE |-> "PHONE", URL |-> "URL"]

PRESIDIO_ENTITY_MAP ==
    [PERSON |-> "PERSON_NAME", PHONE_NUMBER |-> "PHONE",
     EMAIL_ADDRESS |-> "EMAIL", CREDIT_CARD |-> "CREDIT_CARD",
     IBAN_CODE |-> "FINANCIAL", IP_ADDRESS |-> "IP", LOCATION |-> "LOCATION",
     US_SSN |-> "SSN", US_DRIVER_LICENSE |-> "ID_NUMBER",
     US_PASSPORT |-> "ID_NUMBER", US_BANK_NUMBER |-> "FINANCIAL",
     CRYPTO |-> "FINANCIAL", UK_NHS |-> "ID_NUMBER", NRP |-> "ID_NUMBER",
     DATE_TIME |-> "DATE", URL |-> "URL", ORGANIZATION |-> "COMPANY_NAME",
     ADDRESS |-> "ADDRESS"]

\* the tagger's tokens: the texts of the model are words separated by blanks
RECURSIVE SplitAcc(_, _, _)
SplitAcc(text, cur, acc) ==
    IF Len(text) = 0 THEN (IF Len(cur) = 0 THEN acc ELSE Append(acc, cur))
    ELSE IF IsSpace(SubSeq(text, 1, 1))
         THEN SplitAcc(SubSeq(text, 2, Len(text)), "",
                       IF Len(cur) = 0 THEN acc ELSE Append(acc, cur))
         ELSE SplitAcc(SubSeq(text, 2, Len(text)), cur \o SubSeq(text, 1, 1), acc)

Tokens(text) == SplitAcc(text, "", <<>>)

Digits == "0123456789"

\* str.isdigit() / token.is_digit
IsDigitStr(s) ==
    /\ Len(s) > 0
    /\ \A i \in 1..Len(s) : Occurs(SubSeq(s, i, i), Digits)

\* s.replace('-', '').replace(' ', '')
StripSeparators(s) == re_sub(" ", "", re_sub("-", "", s))

\* token.text.split('@')[1]
AfterAt(tok) ==
    LET first == CHOOSE i \in 1..Len(tok) :
                     /\ SubSeq(tok, i, i) = "@"
                     /\ \A j \in 1..(i - 1) : SubSeq(tok, j, j) # "@"
        rest  == SubSeq(tok, first + 1, Len(tok))
        stops == {i \in 1..Len(rest) : SubSeq(rest, i, i) = "@"}
    IN  IF stops = {} THEN rest
        ELSE SubSeq(rest, 1, (CHOOSE i \in stops : \A j \in stops : i <= j) - 1)

RECURSIVE JoinWith(_, _)
JoinWith(sep, parts) ==
    IF Len(parts) = 0 THEN ""
    ELSE IF Len(parts) = 1 THEN parts[1]
    ELSE parts[1] \o sep \o JoinWith(sep, Tail(parts))

\* ' '.join(t.text for t in doc[i:i+4] if t.is_digit or t.text in ['-', ' '])
CardSegment(doc, i) ==
    JoinWith(" ", SelectSeq(SubSeq(doc, i, Min(i + 3, Len(doc))),
                            LAMBDA t : IsDigitStr(t) \/ t \in {"-", " "}))

\* what the second loop appends for the token at (1-based) position i
CardCandidates(doc, i) ==
    (IF IsDigitStr(doc[i]) /\ Len(doc[i]) >= 13 /\ Len(doc[i]) <= 19
     THEN <<[type |-> "CREDIT_CARD", value |-> doc[i]]>> ELSE <<>>)
    \o
    (IF /\ i - 1 < Len(doc) - 3
        /\ IsDigitStr(doc[i])
        /\ IsDigitStr(StripSeparators(CardSegment(doc, i)))
        /\ Len(StripSeparators(CardSegment(doc, i))) >= 13
        /\ Len(StripSeparators(CardSegment(doc, i))) <= 19
     THEN <<[type |-> "CREDIT_CARD", value |-> CardSegment(doc, i)]>> ELSE <<>>)

additional_spacy_patterns(doc) ==
    LET emails == SelectSeq(doc, LAMBDA t : Occurs("@", t) /\ Occurs(".", AfterAt(t)))
    IN  [j \in 1..Len(emails) |-> [type |-> "EMAIL", value |-> emails[j]]]
        \o Flatten([i \in 1..Len(doc) |-> CardCandidates(doc, i)])

\* ents: doc.ents as [label, text]
spacy_entity_detection(text, ents) ==
    LET mapped == SelectSeq(ents, LAMBDA ent : ent.label \in DOMAIN SPACY_ENTITY_MAP)
    IN  [j \in 1..Len(mapped) |->
            [type |-> SPACY_ENTITY_MAP[mapped[j].label], value |-> mapped[j].text]]
        \o additional_spacy_patterns(Tokens(text))

\* results: what analyzer.analyze returns, as [entity_type, start, end]
presidio_entity_detection(text, results) ==
    LET kept == SelectSeq(results,
                          LAMBDA r : r.entity_type \in DOMAIN PRESIDIO_ENTITY_MAP)
    IN  [j \in 1..Len(kept) |->
            [type  |-> PRESIDIO_ENTITY_MAP[kept[j].entity_type],
             value |-> SubSeq(text, kept[j].start + 1, kept[j].end)]]

\* What the tagger may report as doc.ents, and the analyzer as results, in
\* the texts of the model.
NerCatalog ==
    <<[label |-> "PERSON", text |-> "Bob Lee"], [label |-> "PERSON", text |-> "Bob"],
      [label |-> "GPE", text |-> "Lee"], [label |-> "CARDINAL", text |-> "42"],
      [label |-> "PERCENT", text |-> "42"]>>

PresidioCatalog ==
    <<[entity_type |-> "PERSON", text |-> "Bob"],
      [entity_type |-> "LOCATION", text |-> "Lee"],
      [entity_type |-> "EMAIL_ADDRESS", text |-> "a@b.co"]>>

RECURSIVE SubSeqs(_)
SubSeqs(list) ==
    IF Len(list) = 0 THEN {<<>>}
    ELSE LET rest == SubSeqs(Tail(list))
         IN  rest \cup {<<Head(list)>> \o r : r \in rest}

FirstIndex(sub, text) ==
    CHOOSE i \in 1..Len(text) :
        /\ SubSeq(text, i, i + Len(sub) - 1) = sub
        /\ \A j \in 1..(i - 1) : SubSeq(text, j, j + Len(sub) - 1) # sub

\* doc.ents: spans of the text that do not contain one another
NerOutcomes(text) ==
    {ents \in SubSeqs(SelectSeq(NerCatalog, LAMBDA m : Occurs(m.text, text))) :
        \A i \in 1..Len(ents) : \A j \in 1..Len(ents) :
            i # j => ~Occurs(ents[i].text, ents[j].text)}

AnalyzerOutcomes(text) ==
    {[j \in 1..Len(found) |->
        [entity_type |-> found[j].entity_type,
         start       |-> FirstIndex(found[j].text, text) - 1,
         end         |-> FirstIndex(found[j].text, text) - 1 + Len(found[j].text)]] :
     found \in SubSeqs(SelectSeq(PresidioCatalog, LAMBDA m : Occurs(m.text, text)))}

\* one call of an engine: it raises, or returns one of its outcomes
EngineRuns(outcomes) ==
    {[raises |-> TRUE, out |-> <<>>]} \cup {[raises |-> FALSE, out |-> o] : o \in outcomes}

(***************************************************************************)
(* PII_detector.py: merge_entities                                         *)
(***************************************************************************)
priority_types ==
    <<"SSN", "CREDIT_CARD", "EMAIL", "PHONE", "ADDRESS", "PERSON_NAME",
      "COMPANY_NAME", "FINANCIAL", "ID_NUMBER", "LOCATION", "DATE", "URL",
      "IP", "NUMBER", "QUANTITY", "PRODUCT">>

SeqSet(s) == {s[i] : i \in 1..Len(s)}

\* mutant: a value seen again opens a new group
GroupValues_no_dedup(entities, seen) ==
    [i \in 1..Len(entities) |-> entities[i].value]

\* the keys of value_to_entities, in insertion (first-seen) order
RECURSIVE GroupValues(_, _)
GroupValues(entities, seen) ==
    IF Len(entities) = 0 THEN seen
    ELSE GroupValues(Tail(entities),
                     IF Head(entities).value \in SeqSet(seen)
                     THEN seen
                     ELSE Append(seen, Head(entities).value))

\* value_to_entities[value]
EntityGroup(entities, value) == SelectSeq(entities, LAMBDA e : e.value = value)

\* mutant: the group's first type that is in the table, not the table's first
PriorityChoice_first_seen(entity_types) ==
    LET hits == {i \in 1..Len(entity_types) : entity_types[i] \in SeqSet(priority_types)}
    IN  IF hits = {} THEN "None"
        ELSE entity_types[CHOOSE i \in hits : \A j \in hits : i <= j]

\* for p_type in priority_types: if p_type in entity_types: ... break
PriorityChoice(entity_types) ==
    LET hits == {i \in 1..Len(priority_types) : priority_types[i] \in SeqSet(entity_types)}
    IN  IF hits = {} THEN "None"
        ELSE priority_types[CHOOSE i \in hits : \A j \in hits : i <= j]

TypeCount(entity_types, t) ==
    Cardinality({i \in 1..Len(entity_types) : entity_types[i] = t})

\* mutant: among equal counts the type inserted last
MostCommon_last_seen(entity_types) ==
    LET best == CHOOSE i \in 1..Len(entity_types) :
                    /\ \A j \in 1..Len(entity_types) :
                          TypeCount(entity_types, entity_types[j])
                              <= TypeCount(entity_types, entity_types[i])
                    /\ \A j \in (i + 1)..Len(entity_types) :
                          TypeCount(entity_types, entity_types[j])
                              < TypeCount(entity_types, entity_types[i])
    IN  entity_types[best]

\* Counter(entity_types).most_common(1)[0][0]: the largest count, and among
\* equal counts the type inserted first
MostCommon(entity_types) ==
    LET best == CHOOSE i \in 1..Len(entity_types) :
                    /\ \A j \in 1..Len(entity_types) :
                          TypeCount(entity_types, entity_types[j])
                              <= TypeCount(entity_types, entity_types[i])
                    /\ \A j \in 1..(i - 1) :
                          TypeCount(entity_types, entity_types[j])
                              < TypeCount(entity_types, entity_types[i])
    IN  entity_types[best]

MergeGroup(entity_group, value) ==
    IF Len(entity_group) = 1 THEN entity_group[1]
    ELSE LET entity_types == [i \in 1..Len(entity_group) |-> entity_group[i].type]
             chosen_type  == IF PriorityChoice(entity_types) # "None"
                             THEN PriorityChoice(entity_types)
                             ELSE MostCommon(entity_types)
         IN  [type |-> chosen_type, value |-> value]

merge_entities(entities) ==
    LET values == GroupValues(entities, <<>>)
    IN  [i \in 1..Len(values) |->
            MergeGroup(EntityGroup(entities, values[i]), values[i])]

\* detector.merge_entities(entities), called on its own (test_merge_entities)
MergeEntitiesCall ==
    /\ status = "created"
    /\ pii_entities' = merge_entities(candidates)
    /\ status' = "complete"
    /\ UNCHANGED <<stage, original_text, coreference_resolved_text,
                   processed_text, intent, replacement_map, metadata,
                   engineVars, votes, candidates>>

(***************************************************************************)
(* main.py: build_default_pipeline, and the orchestrator                   *)
(***************************************************************************)
\* mutant: the list with coreference resolution ahead of the classifier
DefaultStages_coref_first ==
    <<"CoreferenceStage", "IntentClassifierStage", "PIIDetectorStage",
      "PIIMaskStage", "NameReplacementStage", "AuditStage">>

DefaultStages ==
    <<"IntentClassifierStage", "CoreferenceStage", "PIIDetectorStage",
      "PIIMaskStage", "NameReplacementStage", "AuditStage">>

\* SecurityPipeline.process: the stage that runs next
AtStage(name) ==
    /\ status = "running"
    /\ stage \in 1..Len(DefaultStages)
    /\ DefaultStages[stage] = name

\* SecurityPipeline.process: move to the next stage, return after the last
Advance ==
    /\ stage' = stage + 1
    /\ status' = IF stage = Len(DefaultStages) THEN "complete" ELSE "running"

\* build_default_pipeline(): the stage constructors load the engines
BuildPipeline ==
    /\ status = "created"
    /\ use_llm' \in BOOLEAN
    /\ nlp' \in BOOLEAN
    /\ spacy_available' \in BOOLEAN
    /\ presidio_available' \in BOOLEAN
    /\ builds' = builds + 1
    /\ status' = "running"
    /\ stage' = 1
    /\ UNCHANGED <<ctxVars, votes, candidates>>

\* one call of llm_intent_classification made by process(): the completion
\* service fails, returns nothing or returns a content, or the method itself
\* raises (test_ensemble_classification patches it to do so)
LLMRuns == CompletionOutcomes \cup {[kind |-> "raise", content |-> ""]}

IntentClassifierStage ==
    /\ AtStage("IntentClassifierStage")
    /\ LET llm_runs       == IF use_llm THEN LLMRuns ELSE {NoCompletion}
           spacy_results  == IF nlp THEN SpacyCallResults(original_text)
                             ELSE {"skipped"}
           keyword_intent == keyword_intent_classification(original_text)
       IN  \E run \in llm_runs, spacy_intent \in spacy_results :
              LET llm_intent ==
                      IF run.kind \in {"raise", "skipped"} THEN run.kind
                      ELSE llm_intent_classification(original_text, run)
                  v == CastVotes(llm_intent, spacy_intent, keyword_intent)
              IN  /\ votes' = [v EXCEPT !.completion = run]
                  /\ intent' = FinalIntent(v)
    /\ Advance
    /\ UNCHANGED <<original_text, coreference_resolved_text, processed_text,
                   pii_entities, replacement_map, metadata, engineVars,
                   candidates>>

\* what the coreference engine may return for a text: the text itself, or the
\* text with the pronoun token replaced by a person it mentions
Pronouns == {"he"}

CorefResolutions(text) ==
    {text} \cup
    {JoinWith(" ", [i \in 1..Len(Tokens(text)) |->
                       IF Tokens(text)[i] \in Pronouns THEN n ELSE Tokens(text)[i]]) :
     n \in {Tokens(text)[i] : i \in {j \in 1..Len(Tokens(text)) :
                                        Tokens(text)[j] \in {"Bob", "Lee"}}}}

CoreferenceStage ==
    /\ AtStage("CoreferenceStage")
    /\ \/ \E resolved \in CorefResolutions(original_text) :
             /\ coreference_resolved_text' = resolved
             /\ processed_text' = resolved
             /\ Advance
       \/ \* nlp(text, ...) raises: anonymize_text turns it into HTTP 500
          /\ status' = "failed"
          /\ UNCHANGED <<stage, coreference_resolved_text, processed_text>>
    /\ UNCHANGED <<original_text, intent, pii_entities, replacement_map,
                   metadata, engineVars, votes, candidates>>

\* mutant: an engine call that raises fails the request
PIIDetectorStage_raise_fails ==
    /\ AtStage("PIIDetectorStage")
    /\ \E ner \in EngineRuns(NerOutcomes(coreference_resolved_text)),
          analysis \in EngineRuns(AnalyzerOutcomes(coreference_resolved_text)) :
          IF (spacy_available /\ ner.raises) \/ (presidio_available /\ analysis.raises)
          THEN /\ status' = "failed"
               /\ UNCHANGED <<stage, candidates, pii_entities>>
          ELSE LET entities ==
                       regex_based_pii_detection(coreference_resolved_text)
                       \o (IF spacy_available
                           THEN spacy_entity_detection(coreference_resolved_text,
                                                       ner.out)
                           ELSE <<>>)
                       \o (IF presidio_available
                           THEN presidio_entity_detection(coreference_resolved_text,
                                                          analysis.out)
                           ELSE <<>>)
               IN  /\ candidates' = entities
                   /\ pii_entities' = merge_entities(entities)
                   /\ Advance
    /\ UNCHANGED <<original_text, coreference_resolved_text, processed_text,
                   intent, replacement_map, metadata, engineVars, votes>>

PIIDetectorStage ==
    /\ AtStage("PIIDetectorStage")
    /\ \E ner \in EngineRuns(NerOutcomes(coreference_resolved_text)),
          analysis \in EngineRuns(AnalyzerOutcomes(coreference_resolved_text)) :
          LET regex_entities == regex_based_pii_detection(coreference_resolved_text)
              spacy_entities ==
                  IF spacy_available /\ ~ner.raises
                  THEN spacy_entity_detection(coreference_resolved_text, ner.out)
                  ELSE <<>>
              presidio_entities ==
                  IF presidio_available /\ ~analysis.raises
                  THEN presidio_entity_detection(coreference_resolved_text,
                                                 analysis.out)
                  ELSE <<>>
              entities == regex_entities \o spacy_entities \o presidio_entities
          IN  /\ candidates' = entities
              /\ pii_entities' = merge_entities(entities)
    /\ Advance
    /\ UNCHANGED <<original_text, coreference_resolved_text, processed_text,
                   intent, replacement_map, metadata, engineVars, votes>>

PIIMaskStage ==
    /\ AtStage("PIIMaskStage")
    /\ processed_text' = MaskText(processed_text, pii_entities)
    /\ Advance
    /\ UNCHANGED <<original_text, coreference_resolved_text, intent,
                   pii_entities, replacement_map, metadata, engineVars, votes,
                   candidates>>

\* mutant: the stage replaces names whatever the intent is
NameReplacementStage_any_intent ==
    /\ AtStage("NameReplacementStage")
    /\ \E draw \in AliasDraws(pii_entities) :
          LET replacements == BuildReplacements(pii_entities, draw, <<>>)
          IN  /\ replacement_map' =
                     BuildReplacements(pii_entities, draw, replacement_map)
              /\ processed_text' = multi_replace(processed_text, replacements)
    /\ Advance
    /\ UNCHANGED <<original_text, coreference_resolved_text, intent,
                   pii_entities, metadata, engineVars, votes, candidates>>

NameReplacementStage ==
    /\ AtStage("NameReplacementStage")
    /\ IF intent # "reasoning"
       THEN UNCHANGED <<processed_text, replacement_map>>
       ELSE \E draw \in AliasDraws(pii_entities) :
               LET replacements == BuildReplacements(pii_entities, draw, <<>>)
               IN  /\ replacement_map' =
                          BuildReplacements(pii_entities, draw, replacement_map)
                   /\ processed_text' = multi_replace(processed_text, replacements)
    /\ Advance
    /\ UNCHANGED <<original_text, coreference_resolved_text, intent,
                   pii_entities, metadata, engineVars, votes, candidates>>

AuditStage ==
    /\ AtStage("AuditStage")
    /\ metadata' = <<AuditEntry>>
    /\ Advance
    /\ UNCHANGED <<original_text, coreference_resolved_text, processed_text,
                   intent, pii_entities, replacement_map, engineVars, votes,
                   candidates>>

(***************************************************************************)
(* Inputs.                                                                 *)
(***************************************************************************)
\* all sequences over S of length at most n
RECURSIVE SeqsUpTo(_, _)
SeqsUpTo(S, n) ==
    IF n = 0 THEN {<<>>}
    ELSE LET shorter == SeqsUpTo(S, n - 1)
         IN  shorter \cup {Append(l, x) : l \in shorter, x \in S}

\* all sequences over S of length at most n whose values are pairwise distinct
RECURSIVE EntityLists(_, _)
EntityLists(S, n) ==
    IF n = 0 THEN {<<>>}
    ELSE LET shorter == EntityLists(S, n - 1)
         IN  shorter \cup
             UNION {{Append(l, m) :
                        m \in {x \in S : \A i \in 1..Len(l) : l[i].value # x.value}} :
                    l \in shorter}

Ent(t, v) == [type |-> t, value |-> v]

\* texts of the rewriting stages: one or two words
RewriteWords == {"Bob", "Lee", "Alex", "May", "DATE", "42"}

RewriteTexts ==
    RewriteWords \cup {a \o " " \o b : a \in RewriteWords, b \in RewriteWords}
                 \cup {"May 42 DATE", "Lee Leeds"}

\* what the detectors may report in these texts
Mentions ==
    {Ent("PERSON_NAME", "Bob Lee"), Ent("PERSON_NAME", "Bob"),
     Ent("PERSON_NAME", "Lee"), Ent("LOCATION", "Lee"),
     Ent("PERSON_NAME", "Alex"), Ent("COMPANY_NAME", "May"),
     Ent("DATE", "May"), Ent("DATE", "May 42"), Ent("NUMBER", "42"),
     Ent("PRODUCT", "DATE")}

MentionsIn(text) == {m \in Mentions : Occurs(m.value, text)}

\* The state after PIIDetectorStage of a run in which every engine is loaded,
\* both optional classifiers answered `intent`, the coreference engine found
\* nothing to resolve and the detectors reported each value once.
InitRewrite ==
    /\ status = "running"
    /\ stage = 4
    /\ original_text \in RewriteTexts
    /\ coreference_resolved_text = original_text
    /\ processed_text = original_text
    /\ intent \in {"search", "reasoning"}
    /\ pii_entities \in EntityLists(MentionsIn(original_text), MaxEnts)
    /\ candidates = pii_entities
    /\ replacement_map = <<>>
    /\ metadata = <<>>
    /\ use_llm = TRUE
    /\ nlp = TRUE
    /\ spacy_available = TRUE
    /\ presidio_available = TRUE
    /\ builds = 1
    /\ votes = CastVotes(intent, intent, keyword_intent_classification(original_text))

NextRewrite == PIIMaskStage \/ NameReplacementStage \/ AuditStage

SpecRewrite == InitRewrite /\ [][NextRewrite]_vars

\* candidate lists handed to merge_entities
MaxCands == 3

MergeTypes ==
    {"SSN", "CREDIT_CARD", "PERSON_NAME", "NUMBER", "PRODUCT", "TIME", "PERSON"}

MergeValues == {"4111111111111111", "John Smith"}

InitMerge ==
    /\ status = "created"
    /\ stage = 0
    /\ candidates \in SeqsUpTo({Ent(t, v) : t \in MergeTypes, v \in MergeValues},
                               MaxCands)
    /\ original_text = ""
    /\ coreference_resolved_text = ""
    /\ processed_text = ""
    /\ intent = "unset"
    /\ pii_entities = <<>>
    /\ replacement_map = <<>>
    /\ metadata = <<>>
    /\ use_llm = TRUE
    /\ nlp = TRUE
    /\ spacy_available = TRUE
    /\ presidio_available = TRUE
    /\ builds = 0
    /\ votes = NoVotes

NextMerge == MergeEntitiesCall

SpecMerge == InitMerge /\ [][NextMerge]_vars

\* texts handed to the intent classifier: phrases, alone and padded to lengths
\* around the keyword strategy's length threshold
RECURSIVE Xs(_)
Xs(n) ==
    IF n <= 0 THEN "" ELSE IF n = 1 THEN "x"
    ELSE Xs(n \div 2) \o Xs(n - (n \div 2))

PadTo(phrase, n) == phrase \o " " \o Xs(n - Len(phrase) - 1)

IntentPhrases ==
    {"Find all emails", "Why did it fail", "Show me records", "Bob Lee",
     "Explain the search"}

PadLengths == {139, 140, 141}

IntentTexts ==
    IntentPhrases \cup {PadTo(p, n) : p \in IntentPhrases, n \in PadLengths}

\* PipelineContext(original_text=text), before build_default_pipeline()
InitIntent ==
    /\ status = "created"
    /\ stage = 0
    /\ original_text \in IntentTexts
    /\ coreference_resolved_text = ""
    /\ processed_text = ""
    /\ intent = "unset"
    /\ pii_entities = <<>>
    /\ candidates = <<>>
    /\ replacement_map = <<>>
    /\ metadata = <<>>
    /\ use_llm = TRUE
    /\ nlp = TRUE
    /\ spacy_available = TRUE
    /\ presidio_available = TRUE
    /\ builds = 0
    /\ votes = NoVotes

NextIntent == BuildPipeline \/ IntentClassifierStage

SpecIntent == InitIntent /\ [][NextIntent]_vars

\* detector.regex_based_pii_detection(sample_text), called on its own
RegexDetectionCall ==
    /\ status = "created"
    /\ candidates' = regex_based_pii_detection(original_text)
    /\ status' = "complete"
    /\ UNCHANGED <<stage, ctxVars, engineVars, votes>>

MaxWords == 3

\* a person, a company, an email, a phone number, an SSN and an IP address
RegexWords ==
    {"Bob Lee", "Acme Corp", "a@b.co", "555-123-4567", "123-45-6789", "1.2.3.4"}

RegexSample == "Bob Lee, Acme Corp, a@b.co, 555-123-4567, 123-45-6789, 1.2.3.4"

RegexTexts ==
    {JoinWith(", ", ws) : ws \in SeqsUpTo(RegexWords, MaxWords) \ {<<>>}}
        \cup {RegexSample}

InitRegex ==
    /\ status = "created"
    /\ stage = 0
    /\ original_text \in RegexTexts
    /\ coreference_resolved_text = ""
    /\ processed_text = ""
    /\ intent = "unset"
    /\ pii_entities = <<>>
    /\ candidates = <<>>
    /\ replacement_map = <<>>
    /\ metadata = <<>>
    /\ use_llm = TRUE
    /\ nlp = TRUE
    /\ spacy_available = TRUE
    /\ presidio_available = TRUE
    /\ builds = 0
    /\ votes = NoVotes

NextRegex == RegexDetectionCall

SpecRegex == InitRegex /\ [][NextRegex]_vars

\* mutant: the handler swallows the error and returns the context as it is
anonymize_text_swallows_error ==
    IF status \in {"complete", "failed"}
    THEN [kind |-> "result", processed_text |-> processed_text,
          intent |-> intent, replacement_map |-> replacement_map]
    ELSE [kind |-> "pending"]

\* what anonymize_text gives its caller: the triple of a run that returned, or
\* HTTPException(500, "Processing error: ...") for a run in which a stage raised
anonymize_text ==
    IF status = "complete"
    THEN [kind |-> "result", processed_text |-> processed_text,
          intent |-> intent, replacement_map |-> replacement_map]
    ELSE IF status = "failed"
    THEN [kind |-> "HTTPException", status_code |-> 500,
          detail |-> "Processing error: "]
    ELSE [kind |-> "pending"]

\* requests served by the whole pipeline
PipelineTexts ==
    {"find Bob Lee", "why Lee a@b.co", "Bob he 42", "1234567 or 7654321 x"}

\* PipelineContext(original_text=text), before build_default_pipeline()
Init ==
    /\ status = "created"
    /\ stage = 0
    /\ original_text \in PipelineTexts
    /\ coreference_resolved_text = ""
    /\ processed_text = ""
    /\ intent = "unset"
    /\ pii_entities = <<>>
    /\ candidates = <<>>
    /\ replacement_map = <<>>
    /\ metadata = <<>>
    /\ use_llm = TRUE
    /\ nlp = TRUE
    /\ spacy_available = TRUE
    /\ presidio_available = TRUE
    /\ builds = 0
    /\ votes = NoVotes

Next ==
    \/ BuildPipeline
    \/ IntentClassifierStage
    \/ CoreferenceStage
    \/ PIIDetectorStage
    \/ PIIMaskStage
    \/ NameReplacementStage
    \/ AuditStage

Spec == Init /\ [][Next]_vars

\* the process serves requests one after the other: startup, then for every
\* request a new context and a new pipeline
MaxBuilds == 3      \* calls of build_default_pipeline(): startup, two requests

ServeTexts == {"find Bob Lee", "why Lee a@b.co"}

\* startup_event(): builds a pipeline to verify it, logs it and drops it
Startup ==
    /\ status = "starting"
    /\ use_llm' \in BOOLEAN
    /\ nlp' \in BOOLEAN
    /\ spacy_available' \in BOOLEAN
    /\ presidio_available' \in BOOLEAN
    /\ builds' = builds + 1
    /\ status' = "created"
    /\ UNCHANGED <<stage, ctxVars, votes, candidates>>

\* the endpoint is called again after anonymize_text has returned or raised:
\* PipelineContext(original_text=text) for the next request
NextRequest ==
    /\ status \in {"complete", "failed"}
    /\ builds < MaxBuilds
    /\ status' = "created"
    /\ stage' = 0
    /\ original_text' \in ServeTexts
    /\ coreference_resolved_text' = ""
    /\ processed_text' = ""
    /\ intent' = "unset"
    /\ pii_entities' = <<>>
    /\ candidates' = <<>>
    /\ replacement_map' = <<>>
    /\ metadata' = <<>>
    /\ votes' = NoVotes
    /\ UNCHANGED engineVars

\* the process before its startup event, with the first request at hand
InitServe ==
    /\ status = "starting"
    /\ stage = 0
    /\ original_text \in ServeTexts
    /\ coreference_resolved_text = ""
    /\ processed_text = ""
    /\ intent = "unset"
    /\ pii_entities = <<>>
    /\ candidates = <<>>
    /\ replacement_map = <<>>
    /\ metadata = <<>>
    /\ use_llm = TRUE
    /\ nlp = TRUE
    /\ spacy_available = TRUE
    /\ presidio_available = TRUE
    /\ builds = 0
    /\ votes = NoVotes

NextServe ==
    \/ Startup
    \/ NextRequest
    \/ BuildPipeline
    \/ IntentClassifierStage
    \/ CoreferenceStage
    \/ PIIDetectorStage
    \/ PIIMaskStage
    \/ NameReplacementStage
    \/ AuditStage

SpecServe == InitServe /\ [][NextServe]_vars

(***************************************************************************)
(* Properties.                                                             *)
(***************************************************************************)
StageIndex(name) == CHOOSE i \in 1..Len(DefaultStages) : DefaultStages[i] = name

\* the masking stage has run
Masked == status \in {"running", "complete"} /\ stage > StageIndex("PIIMaskStage")

\* the masking stage has just run
JustMasked == status = "running" /\ stage = StageIndex("PIIMaskStage") + 1

NameEnts ==
    {e \in SeqSet(pii_entities) : e.type \in {"PERSON_NAME", "COMPANY_NAME"}}

MaskedEnts == SeqSet(pii_entities) \ NameEnts

MaskedValues == {e.value : e \in MaskedEnts}

Tag(t) == "<" \o t \o ">"

\* v occurs in text at a place that no occurrence of a value in others overlaps
Untouched(v, text, others) ==
    \E p \in 1..Len(text) :
        /\ OccursAt(v, text, p)
        /\ \A u \in others : \A q \in 1..Len(text) :
              OccursAt(u, text, q) => (q + Len(u) <= p \/ p + Len(v) <= q)

NoBrackets(values) == \A u \in values : ~Occurs("<", u) /\ ~Occurs(">", u)

C2_NoMaskedValueLeft ==
    Masked => \A e \in MaskedEnts : ~Occurs(e.value, processed_text)

\* C3: right after masking, the placeholder of every non-immune
\* merged entity occurs in processed_text.
C3_EveryPlaceholderPresent ==
    JustMasked => \A e \in MaskedEnts : Occurs(Tag(e.type), processed_text)

\* C4: at the end of a 'reasoning' run no key of replacement_map occurs in
\* processed_text.
C4_NoKeyLeft ==
    (status = "complete" /\ intent = "reasoning")
        => \A k \in DictKeys(replacement_map) : ~Occurs(k, processed_text)

\* C5: at the end of a 'reasoning' run every value (pseudonym) of
\* replacement_map occurs in processed_text.
C5_EveryAliasPresent ==
    (status = "complete" /\ intent = "reasoning")
        => \A a \in DictVals(replacement_map) : Occurs(a, processed_text)

\* C6: masking is idempotent: applying the masking substitution to the text it
\* produced leaves that text unchanged.
C6_MaskIdempotent ==
    JustMasked => MaskText(processed_text, pii_entities) = processed_text

\* the order of types C7 states
C7_Order ==
    <<"SSN", "CREDIT_CARD", "EMAIL", "PHONE", "ADDRESS", "PERSON_NAME",
      "COMPANY_NAME", "FINANCIAL", "ID_NUMBER", "LOCATION", "DATE", "URL",
      "IP", "NUMBER", "QUANTITY", "PRODUCT">>

C7_Rank(t) == CHOOSE i \in 1..Len(C7_Order) : C7_Order[i] = t

CandidateTypes(v) == {c.type : c \in {x \in SeqSet(candidates) : x.value = v}}

CandidateCount(v) == Cardinality({i \in 1..Len(candidates) : candidates[i].value = v})

MergeDone == status = "complete" /\ stage = 0

\* C7: a group of two or more same-value candidates with at least one type in
\* the priority table merges to the group's type that comes first in the order.
C7_MergePriority ==
    MergeDone
        => \A v \in {c.value : c \in SeqSet(candidates)} :
              LET ranked == CandidateTypes(v) \cap SeqSet(C7_Order)
              IN  (CandidateCount(v) >= 2 /\ ranked # {})
                     => \E e \in SeqSet(pii_entities) :
                           /\ e.value = v
                           /\ e.type \in ranked
                           /\ \A t \in ranked : C7_Rank(e.type) <= C7_Rank(t)

C7_Witness ==
    /\ MergeDone
    /\ Len(candidates) = 3
    /\ candidates[1] = Ent("NUMBER", "4111111111111111")
    /\ candidates[2] = Ent("CREDIT_CARD", "4111111111111111")
    /\ candidates[3] = Ent("NUMBER", "4111111111111111")
    /\ pii_entities = <<Ent("CREDIT_CARD", "4111111111111111")>>

\* C8: the merged list has no two entities with the same value, has exactly
\* the candidates' values, and gives each value a type it was detected with.
C8_MergeShape ==
    MergeDone
        => /\ \A i \in 1..Len(pii_entities) : \A j \in 1..Len(pii_entities) :
                 pii_entities[i].value = pii_entities[j].value => i = j
           /\ {e.value : e \in SeqSet(pii_entities)}
                 = {c.value : c \in SeqSet(candidates)}
           /\ \A e \in SeqSet(pii_entities) : e.type \in CandidateTypes(e.value)

C8_Witness ==
    /\ MergeDone
    /\ Len(candidates) = 3
    /\ Len(pii_entities) = 2
    /\ \E i \in 1..3 : candidates[i].type \notin SeqSet(priority_types)

\* the intent classifier stage has run
Classified == status = "running" /\ stage = StageIndex("IntentClassifierStage") + 1

Labels == {"search", "reasoning"}

VotesFor(label) ==
    Cardinality({s \in {"llm", "spacy", "keyword"} : votes[s] = label})

\* C9: each available strategy that does not raise casts exactly one vote; the
\* intent is the label with strictly more votes, on a tie the keyword
\* strategy's result; a strategy that raises is not counted.
C9_Voting ==
    Classified
        => /\ (votes.llm \in Labels) = (use_llm /\ votes.llm # "raise")
           /\ (votes.spacy \in Labels) = (nlp /\ votes.spacy # "raise")
           /\ votes.keyword \in Labels
           /\ votes.search = VotesFor("search")
           /\ votes.reasoning = VotesFor("reasoning")
           /\ votes.methods_used = VotesFor("search") + VotesFor("reasoning")
           /\ intent = IF VotesFor("search") > VotesFor("reasoning") THEN "search"
                       ELSE IF VotesFor("reasoning") > VotesFor("search") THEN "reasoning"
                       ELSE votes.keyword

C9_Witness ==
    /\ Classified
    /\ votes.llm = "raise"
    /\ votes.spacy = "search"
    /\ votes.keyword = "reasoning"
    /\ intent = "reasoning"

MatchesSearch(text) ==
    \E w \in {"find", "lookup", "list", "search", "show", "retrieve", "query"} :
        Occurs(w, Lower(text))

MatchesReasoning(text) ==
    \E w \in {"why", "how", "explain", "compare", "analyse", "analysis",
              "reason", "evaluate", "calculate"} :
        Occurs(w, Lower(text))

JustReplaced == status = "running" /\ stage = StageIndex("NameReplacementStage") + 1

ForwardOnly ==
    /\ \/ stage' = stage + 1
       \/ stage' = stage /\ status' = "failed"
    /\ status' = "complete" => stage' = Len(DefaultStages) + 1

\* C12 (as stated): the stages run once each, forward only, in the order
\* coreference resolution, intent classification, entity detection, masking,
\* name replacement, audit.
C12_CoreferenceFirst ==
    [][/\ ForwardOnly
       /\ CoreferenceStage => stage = 1
       /\ IntentClassifierStage => stage = 2
       /\ PIIDetectorStage => stage = 3
       /\ PIIMaskStage => stage = 4
       /\ NameReplacementStage => stage = 5
       /\ AuditStage => stage = 6]_vars

\* C12 (amended): the stages run once each, forward only, in the order intent
\* classification, coreference resolution, entity detection, masking, name
\* replacement, audit; the classifier runs while the resolved text is still
\* empty, and a completed run has passed all six stages.
C12_IntentFirst ==
    [][/\ ForwardOnly
       /\ IntentClassifierStage => (stage = 1 /\ coreference_resolved_text = "")
       /\ CoreferenceStage => (stage = 2 /\ intent # "unset")
       /\ PIIDetectorStage => stage = 3
       /\ PIIMaskStage => stage = 4
       /\ NameReplacementStage => stage = 5
       /\ AuditStage => stage = 6]_vars

C12_Witness ==
    /\ status = "complete"
    /\ stage = Len(DefaultStages) + 1
    /\ intent = "reasoning"
    /\ coreference_resolved_text # original_text
    /\ Len(pii_entities) > 0
    /\ Len(replacement_map) > 0
    /\ Len(metadata) = 1

\* C13: at the end of a run, whatever the intent, every detected value that
\* was rewritten (it stood in the resolved text and is gone from
\* processed_text) is a key of replacement_map, names and masked values such
\* as emails alike; no key occurs in processed_text and every alias does.
C13_MappingCoversRewrites ==
    status = "complete"
        => /\ \A e \in SeqSet(pii_entities) :
                 (/\ Occurs(e.value, coreference_resolved_text)
                  /\ ~Occurs(e.value, processed_text))
                     => e.value \in DictKeys(replacement_map)
           /\ \A k \in DictKeys(replacement_map) : ~Occurs(k, processed_text)
           /\ \A a \in DictVals(replacement_map) : Occurs(a, processed_text)

\* the detection stage has just run
JustDetected == status = "running" /\ stage = StageIndex("PIIDetectorStage") + 1

\* what the NER detector can add to the candidates of a request: nothing (it
\* is unavailable, or its call raised), or everything one successful call finds
SpacyContributions ==
    {<<>>} \cup
    (IF spacy_available
     THEN {spacy_entity_detection(coreference_resolved_text, n) :
              n \in NerOutcomes(coreference_resolved_text)}
     ELSE {})

PresidioContributions ==
    {<<>>} \cup
    (IF presidio_available
     THEN {presidio_entity_detection(coreference_resolved_text, r) :
              r \in AnalyzerOutcomes(coreference_resolved_text)}
     ELSE {})

\* C14: the detection stage always completes (the run goes on to masking), and
\* pii_entities is the merge of the pattern detector's candidates followed by
\* those of each other detector that was available and did not raise; an
\* unavailable or raising detector adds nothing.
C14_DetectorFailureTolerated ==
    [][AtStage("PIIDetectorStage")
          => /\ status' = "running"
             /\ stage' = stage + 1
             /\ pii_entities' = merge_entities(candidates')
             /\ \E sp \in SpacyContributions, pr \in PresidioContributions :
                   candidates' =
                       regex_based_pii_detection(coreference_resolved_text)
                           \o sp \o pr]_vars

C14_Witness ==
    /\ JustDetected
    /\ ~spacy_available
    /\ presidio_available
    /\ Len(regex_based_pii_detection(coreference_resolved_text)) = 1
    /\ Len(candidates) = 3
    /\ Len(pii_entities) = 2

\* C15: once a stage has raised (the coreference stage, the one stage whose
\* failure is not caught), the run takes no further step: no later stage runs
\* and the stage is not retried; detection, masking, replacement and audit
\* have not happened, and the caller gets HTTP 500 with a detail string, not
\* a result triple.
C15_FailureAborts ==
    /\ [][status # "failed"]_vars
    /\ [](status = "failed"
            => /\ stage = StageIndex("CoreferenceStage")
               /\ pii_entities = <<>>
               /\ candidates = <<>>
               /\ processed_text = ""
               /\ replacement_map = <<>>
               /\ metadata = <<>>
               /\ anonymize_text.kind = "HTTPException"
               /\ anonymize_text.status_code = 500
               /\ Len(anonymize_text.detail) > 0)

C15_Witness ==
    /\ status = "failed"
    /\ stage = StageIndex("CoreferenceStage")
    /\ intent \in {"search", "reasoning"}
    /\ anonymize_text.kind = "HTTPException"

\* 'First Last' over the whole first-name and last-name lists
PersonAliases ==
    {f \o " " \o l : f \in SeqSet(first_names), l \in SeqSet(last_names)}

\* 'Prefix Suffix' over the whole prefix and suffix lists
CompanyAliases ==
    {x \o " " \o y : x \in SeqSet(prefixes), y \in SeqSet(suffixes)}

C17_AuditEntry ==
    status = "complete"
        => /\ Len(metadata) = 1
           /\ metadata[1].intent = intent
           /\ metadata[1].pii_discovered = Len(pii_entities)
           /\ metadata[1].name_mapping = replacement_map
           /\ metadata[1].masked_entities =
                 SelectSeq(pii_entities,
                           LAMBDA e : e.type \notin {"PERSON_NAME", "COMPANY_NAME"})

\* the direct call of the pattern detector has returned
RegexDone == status = "complete" /\ stage = 0

\* C18: on a text holding a person's name, a company name, an email, a phone
\* number, an SSN and an IP address, the pattern detector's candidates include
\* the types EMAIL, PHONE, SSN and IP and also PERSON_NAME and COMPANY_NAME.
C18_RegexFindsNames ==
    (RegexDone /\ \A w \in RegexWords : Occurs(w, original_text))
        => {"EMAIL", "PHONE", "SSN", "IP", "PERSON_NAME", "COMPANY_NAME"}
              \subseteq {c.type : c \in SeqSet(candidates)}

\* C19: the generative strategy answers 'search' for a response that (stripped
\* and lower-cased, as the code reads it) contains 'search', otherwise
\* 'reasoning' for one that contains 'reasoning'; for an empty or unparseable
\* response, and when the completion call fails, it answers what the keyword
\* strategy answers for the same text.
C19_LLMStrategy ==
    (Classified /\ votes.completion.kind \in {"fails", "empty", "content"})
        => votes.llm =
              IF /\ votes.completion.kind = "content"
                 /\ Occurs("search", Lower(Strip(votes.completion.content)))
              THEN "search"
              ELSE IF /\ votes.completion.kind = "content"
                      /\ Occurs("reasoning", Lower(Strip(votes.completion.content)))
              THEN "reasoning"
              ELSE votes.keyword

C19_Witness ==
    /\ Classified
    /\ votes.completion = [kind |-> "content", content |-> "unsure"]
    /\ votes.keyword = "reasoning"
    /\ votes.llm = "reasoning"
    /\ votes.spacy = "search"

\* C20: whatever the two optional strategies do (disabled, not loaded,
\* raising, answering), the step of the classifier stage never fails the run:
\* it hands over to the next stage, the keyword strategy's answer is counted
\* as a vote, and the intent written is 'search' or 'reasoning'.
C20_ClassifierNeverFails ==
    /\ [][AtStage("IntentClassifierStage")
             => /\ status' = "running"
                /\ stage' = stage + 1
                /\ votes'.keyword \in Labels
                /\ votes'.methods_used >= 1
                /\ votes'[votes'.keyword] >= 1
                /\ intent' \in Labels]_vars
    /\ [](status # "failed")
    /\ [](Classified => intent \in Labels)

C20_Witness ==
    /\ Classified
    /\ use_llm
    /\ nlp
    /\ votes.llm = "raise"
    /\ votes.spacy = "raise"
    /\ votes.methods_used = 1
    /\ intent = votes.keyword

\* the tokens of text that hold one of the values inside a longer token
EmbeddingTokens(values, text) ==
    {t \in SeqSet(Tokens(text)) :
        /\ \E v \in values : Occurs(v, t) /\ v # t
        /\ \A v \in values : ~Occurs(t, v)}

\* C21: the substitution respects word boundaries: a token of the text that
\* holds a masked value inside a longer token is still a token of
\* processed_text after masking, and (in a run that masked nothing) a token
\* that holds a name inside a longer token is still one after name replacement.
C21_WordBoundaries ==
    /\ JustMasked
          => \A t \in EmbeddingTokens(MaskedValues, coreference_resolved_text) :
                t \in SeqSet(Tokens(processed_text))
    /\ (JustReplaced /\ MaskedEnts = {})
          => \A t \in EmbeddingTokens({e.value : e \in NameEnts},
                                      coreference_resolved_text) :
                t \in SeqSet(Tokens(processed_text))

\* C22: right after masking, every occurrence of the value of a PERSON_NAME or
\* COMPANY_NAME entity that stood in the text is still there, also when the
\* value of a non-immune entity is a substring of the name.
C22_NamesUntouched ==
    JustMasked
        => \A e \in NameEnts :
              CountOcc(e.value, processed_text)
                  >= CountOcc(e.value, coreference_resolved_text)

\* C23: right after detection, the value of every candidate of every detector,
\* and of every merged entity, is a contiguous substring of the text that was
\* analysed, the credit-card candidates built from digit tokens included.
C23_ValuesAreSubstrings ==
    JustDetected
        => /\ \A c \in SeqSet(candidates) :
                 Occurs(c.value, coreference_resolved_text)
           /\ \A e \in SeqSet(pii_entities) :
                 Occurs(e.value, coreference_resolved_text)

\* the places of the candidate list that hold the value v
PlacesOf(v) == {i \in 1..Len(candidates) : candidates[i].value = v}

\* how often the type t was reported for the value v
TimesSeen(v, t) == Cardinality({i \in PlacesOf(v) : candidates[i].type = t})

\* the place at which the type t was first reported for the value v
FirstSeen(v, t) ==
    CHOOSE i \in PlacesOf(v) :
        /\ candidates[i].type = t
        /\ \A j \in PlacesOf(v) : candidates[j].type = t => i <= j

\* C24: a group of two or more same-value candidates none of whose types is in
\* the priority table merges to the type reported most often for the value,
\* and among the types reported equally often to the one reported first.
C24_MostCommonFirstSeen ==
    MergeDone
        => \A v \in {c.value : c \in SeqSet(candidates)} :
              (CandidateCount(v) >= 2
                  /\ CandidateTypes(v) \cap SeqSet(priority_types) = {})
                 => \E e \in SeqSet(pii_entities) :
                       /\ e.value = v
                       /\ e.type \in CandidateTypes(v)
                       /\ \A t \in CandidateTypes(v) :
                             \/ TimesSeen(v, t) < TimesSeen(v, e.type)
                             \/ /\ TimesSeen(v, t) = TimesSeen(v, e.type)
                                /\ FirstSeen(v, e.type) <= FirstSeen(v, t)

C24_Witness ==
    /\ MergeDone
    /\ candidates = <<Ent("TIME", "John Smith"), Ent("PERSON", "John Smith"),
                      Ent("SSN", "4111111111111111")>>
    /\ pii_entities = <<Ent("TIME", "John Smith"), Ent("SSN", "4111111111111111")>>

\* C25: over the requests of one process each engine is initialized at most
\* once (the stage constructors, which load the engines, run at most once),
\* no request is served before that, and once the engines are initialized
\* their availability never changes: an engine that failed to load is not
\* loaded again.
C25_EnginesInitializedOnce ==
    /\ [](builds <= 1)
    /\ [](status = "running" => builds = 1)
    /\ [][builds >= 1
             => UNCHANGED <<use_llm, nlp, spacy_available, presidio_available>>]_vars

\* C26: once name replacement has run, replacement_map is injective: no two
\* distinct names have the same pseudonym.
C26_AliasesDistinct ==
    (status \in {"running", "complete"}
        /\ stage > StageIndex("NameReplacementStage"))
        => \A i \in 1..Len(replacement_map) : \A j \in 1..Len(replacement_map) :
              replacement_map[i].val = replacement_map[j].val
                  => replacement_map[i].key = replacement_map[j].key

\* the entries of the map d whose key stands in text at position p
KeysAt(d, text, p) == {i \in 1..Len(d) : OccursAt(d[i].key, text, p)}

\* one pass over text from position p on: at every position the longest key
\* that stands there is replaced and the pass goes on behind it; what was
\* inserted is not looked at again
RECURSIVE SinglePass(_, _, _)
SinglePass(d, text, p) ==
    IF p > Len(text) THEN ""
    ELSE IF KeysAt(d, text, p) = {} THEN SubSeq(text, p, p) \o SinglePass(d, text, p + 1)
    ELSE LET k == CHOOSE i \in KeysAt(d, text, p) :
                      \A j \in KeysAt(d, text, p) : Len(d[j].key) <= Len(d[i].key)
         IN  d[k].val \o SinglePass(d, text, p + Len(d[k].key))

\* C27: the multi-key substitution is a single pass: the text after masking is
\* the text before it with all non-overlapping longest matches of the mask
\* keys replaced at once, and likewise the text after name replacement (in a
\* run that masked nothing) for the keys of replacement_map.
C27_SinglePass ==
    /\ JustMasked
          => processed_text
                 = SinglePass(Masks(pii_entities), coreference_resolved_text, 1)
    /\ (JustReplaced /\ MaskedEnts = {})
          => processed_text
                 = SinglePass(replacement_map, coreference_resolved_text, 1)

\* c is a letter or a digit
IsWordChar(c) == Occurs(c, LowerAlpha) \/ Occurs(c, UpperAlpha) \/ Occurs(c, Digits)

\* w stands in text as a whole word: no letter or digit right before or after
OccursAsWord(w, text) ==
    \E p \in 1..Len(text) :
        /\ OccursAt(w, text, p)
        /\ p = 1 \/ ~IsWordChar(SubSeq(text, p - 1, p - 1))
        /\ p + Len(w) > Len(text)
              \/ ~IsWordChar(SubSeq(text, p + Len(w), p + Len(w)))

\* C28: the keyword strategy matches whole words: for a text in which a search
\* keyword stands as a word and no reasoning keyword does, it answers 'search'
\* whatever the length of the text.
C28_WholeWordKeywords ==
    (/\ Classified
     /\ \E w \in {"find", "lookup", "list", "search", "show", "retrieve", "query"} :
           OccursAsWord(w, Lower(original_text))
     /\ \A w \in {"why", "how", "explain", "compare", "analyse", "analysis",
                  "reason", "evaluate", "calculate"} :
           ~OccursAsWord(w, Lower(original_text)))
        => votes.keyword = "search"

\* the optional strategies that cast a vote
OptionalVoters == {m \in {"llm", "spacy"} : votes[m] \in Labels}

\* C29: when the keyword strategy and exactly one optional strategy vote (the
\* other is disabled, not loaded or raised), the intent is the keyword
\* strategy's result whatever the optional strategy answered; the intent
\* differs from the keyword result only when both optional strategies voted
\* and both voted against it.
C29_TwoVotersKeywordWins ==
    Classified
        => /\ Cardinality(OptionalVoters) = 1 => intent = votes.keyword
           /\ intent # votes.keyword
                 => /\ OptionalVoters = {"llm", "spacy"}
                    /\ votes.llm # votes.keyword
                    /\ votes.spacy # votes.keyword

C29_Witness ==
    /\ Classified
    /\ ~use_llm
    /\ votes.llm = "skipped"
    /\ votes.spacy = "reasoning"
    /\ votes.keyword = "search"
    /\ votes.methods_used = 2
    /\ intent = "search"

\* the completion call failed, or its answer names neither label
NoLLMAnswer ==
    \/ votes.completion.kind \in {"fails", "empty"}
    \/ /\ votes.completion.kind = "content"
       /\ ~Occurs("search", Lower(Strip(votes.completion.content)))
       /\ ~Occurs("reasoning", Lower(Strip(votes.completion.content)))

\* C30: when the generative strategy is enabled and its completion call fails
\* or its answer cannot be read, the strategy still votes, for the keyword
\* strategy's result, and the intent is the keyword strategy's result whatever
\* the embedding strategy does.
C30_LLMFallbackVotes ==
    (Classified /\ use_llm /\ NoLLMAnswer)
        => /\ votes.llm \in Labels
           /\ votes.llm = votes.keyword
           /\ votes[votes.keyword] >= 2
           /\ intent = votes.keyword

C30_Witness ==
    /\ Classified
    /\ use_llm
    /\ votes.completion.kind = "fails"
    /\ votes.llm = "search"
    /\ votes.keyword = "search"
    /\ votes.spacy = "reasoning"
    /\ intent = "search"

====
